---------------------------- MODULE Spec2Model ----------------------------
(***************************************************************************)
(* logscli: a grep-like command line client for logs kept in ClickHouse.   *)
(*                                                                         *)
(* The model follows src/main.go (the variant with context lines and time  *)
(* bounds); src/unnamed/part_000 is the earlier variant of the same        *)
(* program with the same Escape, header loop and printResults skeleton.    *)
(*                                                                         *)
(* Strings are sequences of byte values.  The remote ClickHouse server is  *)
(* the environment: its table is chosen in Init and its responses are      *)
(* computed from the query the program sends.                              *)
(***************************************************************************)
EXTENDS Integers, Sequences, FiniteSets, TLC

VARIABLES
    \* command line flags (main.go:27-48)
    fixedString, regexString, before, after, reverse,
    beforeLines, afterLines, contextLines,
    \* the remote side: the rows of the table, the header lines it will send
    \* (and whether the blank line follows them), the lines it will add to
    \* the rows of the main response; and the response being read
    table, hdrs, fault, rd,
    keepAlive,  \* whether the server keeps HTTP connections open for reuse
    \* the program
    pc,         \* position of the main flow
    cur,        \* date, millis, rest of the row being handled by printResults
    stdout,     \* what has been written to standard output, one entry per write
    stderr,     \* what has been written to the diagnostic output
    err,        \* the error runMain returned ("nil" while there is none)
    \* history
    queries,    \* every query sent to the server, in order
    ctxLog,     \* one entry per context scan: what the server returned
    connLog,    \* every connection opened and closed, in order
    \* the process
    status,     \* "running", or the exit status: "0" or "1"
    watch,      \* position of the task that waits for SIGPIPE
    sigs,       \* how many SIGPIPE signals have arrived
    \* the command run again and again
    prev,       \* what each earlier run of the command wrote and asked
    tailf,      \* the -tailf flag
    \* Escape called on its own
    txt, buf

flagVars == <<fixedString, regexString, before, after, reverse,
              beforeLines, afterLines, contextLines>>
serverVars == <<table, hdrs, fault, keepAlive>>
escVars == <<txt, buf>>
procVars == <<status, watch, sigs>>
ctlVars == <<prev, tailf>>
vars == <<fixedString, regexString, before, after, reverse,
          beforeLines, afterLines, contextLines, table, hdrs, fault, rd,
          pc, cur, stdout, stderr, err, queries, ctxLog, txt, buf,
          connLog, status, watch, sigs, keepAlive, prev, tailf>>

---------------------------------------------------------------------------
(* Bounds of the model.                                                    *)

\* longest string handed to Escape on its own
MaxLen == 3
\* most rows in the server's table
MaxRows == 3
\* largest value of -A, -B and -C
MaxContext == 2
\* most header lines ahead of the blank line (or of the end of the stream)
MaxHeaders == 3
\* most SIGPIPE signals that arrive in one run
MaxSignals == 2
\* longest millis field, and longest payload, of a row of any content
MaxField == 3
\* most runs of the same command, one after the other
MaxRuns == 2
\* most cycles of tail mode
MaxCycles == 3

---------------------------------------------------------------------------
(* Byte values the code names.                                             *)

NUL == 0
TAB == 9
LF == 10
CR == 13
SUB == 26
SP == 32
DQ == 34
SQ == 39
BS == 92
Dot == 46
Digit0 == 48
LetterZ == 90
LetterN == 110
LetterR == 114
\* utf8.RuneError, what range yields for a byte that starts no valid encoding
RuneError == 65533

---------------------------------------------------------------------------
(* Go's string functions, as far as the program uses them.                 *)

RECURSIVE Concat(_)
\* the concatenation of a sequence of strings
Concat(ss) == IF ss = <<>> THEN <<>> ELSE Head(ss) \o Concat(Tail(ss))

RECURSIVE Join(_, _)
\* strings.Join
Join(ss, sep) ==
    IF ss = <<>> THEN <<>>
    ELSE IF Len(ss) = 1 THEN ss[1]
    ELSE ss[1] \o sep \o Join(Tail(ss), sep)

\* strings.IndexByte, 1-based; 0 when c does not occur in s
IndexByte(s, c) ==
    IF \E i \in 1..Len(s) : s[i] = c
    THEN CHOOSE i \in 1..Len(s) : s[i] = c /\ \A j \in 1..(i - 1) : s[j] # c
    ELSE 0

RECURSIVE Split(_, _)
\* strings.Split on a one byte separator: always at least one element
Split(s, c) ==
    LET i == IndexByte(s, c)
    IN  IF i = 0 THEN <<s>>
        ELSE <<SubSeq(s, 1, i - 1)>> \o Split(SubSeq(s, i + 1, Len(s)), c)

RECURSIVE SplitN(_, _, _)
\* strings.SplitN on a one byte separator, n >= 1: at most n elements, the
\* last one holding the unsplit remainder
SplitN(s, c, n) ==
    LET i == IndexByte(s, c)
    IN  IF n = 1 \/ i = 0 THEN <<s>>
        ELSE <<SubSeq(s, 1, i - 1)>> \o SplitN(SubSeq(s, i + 1, Len(s)), c, n - 1)

\* unicode.IsSpace on the bytes of the model
IsSpace(c) == c \in {TAB, LF, CR, SP}

\* strings.TrimSpace
TrimSpace(s) ==
    IF \A i \in 1..Len(s) : IsSpace(s[i]) THEN <<>>
    ELSE LET lo == CHOOSE i \in 1..Len(s) :
                       ~IsSpace(s[i]) /\ \A j \in 1..(i - 1) : IsSpace(s[j])
             hi == CHOOSE i \in 1..Len(s) :
                       ~IsSpace(s[i]) /\ \A j \in (i + 1)..Len(s) : IsSpace(s[j])
         IN  SubSeq(s, lo, hi)

\* strings.ReplaceAll of one byte by another
ReplaceAll(s, old, new) == [i \in 1..Len(s) |-> IF s[i] = old THEN new ELSE s[i]]

\* the reversal loop of printContextResults (main.go:160-162)
Reversed(res) == [i \in 1..Len(res) |-> res[Len(res) - i + 1]]

RECURSIVE Dec(_)
\* the decimal digits of n >= 0
Dec(n) == IF n < 10 THEN <<Digit0 + n>> ELSE Dec(n \div 10) \o <<Digit0 + (n % 10)>>

\* fmt's %03d: sign first, then zeros up to a width of 3
Pad3(n) ==
    LET d == IF n < 0 THEN Dec(-n) ELSE Dec(n)
        sign == IF n < 0 THEN <<45>> ELSE <<>>
        fill == 3 - Len(sign) - Len(d)
    IN  sign \o [i \in 1..(IF fill > 0 THEN fill ELSE 0) |-> Digit0] \o d

IsDigit(c) == c \in Digit0..(Digit0 + 9)

RECURSIVE DigitsValue(_)
DigitsValue(s) ==
    IF s = <<>> THEN 0
    ELSE 10 * DigitsValue(SubSeq(s, 1, Len(s) - 1)) + (s[Len(s)] - Digit0)

\* strconv.Atoi with its error dropped (main.go:259): the value of an
\* optionally signed run of digits, 0 for anything else
Atoi(s) ==
    LET signed == s # <<>> /\ s[1] \in {43, 45}
        digits == IF signed THEN Tail(s) ELSE s
    IN  IF digits = <<>> \/ \E i \in 1..Len(digits) : ~IsDigit(digits[i]) THEN 0
        ELSE IF signed /\ s[1] = 45 THEN 0 - DigitsValue(digits)
        ELSE DigitsValue(digits)

\* lexicographic order on strings, the order of ClickHouse's DateTime text
RECURSIVE StrLess(_, _)
StrLess(a, b) ==
    IF b = <<>> THEN FALSE
    ELSE IF a = <<>> THEN TRUE
    ELSE IF a[1] # b[1] THEN a[1] < b[1]
    ELSE StrLess(Tail(a), Tail(b))

\* whether needle occurs in s (ClickHouse's position(s, needle) <> 0)
Contains(s, needle) ==
    \E i \in 0..(Len(s) - Len(needle)) : SubSeq(s, i + 1, i + Len(needle)) = needle

\* every string over alphabet of length at most n
StringsUpTo(alphabet, n) == UNION {[1..k -> alphabet] : k \in 0..n}

---------------------------------------------------------------------------
(* Escape (main.go:60-91, part_000:42-73).                                 *)

\* what `for ii, bb := range txt` yields at byte index ii: the rune and the
\* number of bytes it takes.  One and two byte encodings are decoded; any
\* other byte of 0x80 and above is an invalid encoding, which range yields
\* as RuneError with a width of 1.
RangeAt(s, ii) ==
    LET b == s[ii]
    IN  IF b < 128 THEN [bb |-> b, width |-> 1]
        ELSE IF b \in 194..223 /\ ii < Len(s) /\ s[ii + 1] \in 128..191
        THEN [bb |-> (b - 192) * 64 + (s[ii + 1] - 128), width |-> 2]
        ELSE [bb |-> RuneError, width |-> 1]

\* the switch without the SUB case
EscapeSwitchNoSUB(bb) ==
    CASE bb = NUL -> <<BS, Digit0>>
      [] bb = LF -> <<BS, LetterN>>
      [] bb = CR -> <<BS, LetterR>>
      [] bb = BS -> <<BS, BS>>
      [] bb = SQ -> <<BS, SQ>>
      [] bb = DQ -> <<BS, DQ>>
      [] OTHER -> <<>>

\* the switch of Escape: the escape sequence of rune bb, <<>> for the
\* default case (continue)
EscapeSwitch(bb) ==
    CASE bb = NUL -> <<BS, Digit0>>
      [] bb = LF -> <<BS, LetterN>>
      [] bb = CR -> <<BS, LetterR>>
      [] bb = BS -> <<BS, BS>>
      [] bb = SQ -> <<BS, SQ>>
      [] bb = DQ -> <<BS, DQ>>
      [] bb = SUB -> <<BS, LetterZ>>
      [] OTHER -> <<>>

RECURSIVE EscapeLoop(_, _, _, _)
\* the loop of Escape from byte index ii (1-based) on, last being the index
\* of the first byte not yet written and out the buffer so far
EscapeLoop(s, ii, last, out) ==
    IF ii > Len(s) THEN out \o SubSeq(s, last, Len(s))
    ELSE LET r == RangeAt(s, ii)
             esc == EscapeSwitch(r.bb)
         IN  IF esc = <<>> THEN EscapeLoop(s, ii + r.width, last, out)
             ELSE EscapeLoop(s, ii + r.width, ii + 1,
                             out \o SubSeq(s, last, ii - 1) \o esc)

Escape(s) == EscapeLoop(s, 1, 1, <<>>)

---------------------------------------------------------------------------
(* The server's reading of a single-quoted literal.                        *)

\* ClickHouse's escape sequences among the bytes of the model: \0 \n \r
\* name a control byte; \\ \' \" name the byte itself; before any other
\* byte the backslash stays (there is no \Z in ClickHouse)
UnescapeSeq(c) ==
    CASE c = Digit0 -> <<NUL>>
      [] c = LetterN -> <<LF>>
      [] c = LetterR -> <<CR>>
      [] c \in {BS, SQ, DQ} -> <<c>>
      [] OTHER -> <<BS, c>>

RECURSIVE Unescape(_)
\* the string a literal's text stands for
Unescape(s) ==
    IF s = <<>> THEN <<>>
    ELSE IF s[1] = BS /\ Len(s) >= 2
    THEN UnescapeSeq(s[2]) \o Unescape(SubSeq(s, 3, Len(s)))
    ELSE <<s[1]>> \o Unescape(Tail(s))

RECURSIVE ClosesLiteral(_)
\* whether the text, put between single quotes, ends the literal early: it
\* holds a quote no backslash escapes, or ends in a lone backslash
ClosesLiteral(s) ==
    IF s = <<>> THEN FALSE
    ELSE IF s[1] = BS THEN Len(s) = 1 \/ ClosesLiteral(SubSeq(s, 3, Len(s)))
    ELSE s[1] = SQ \/ ClosesLiteral(Tail(s))

---------------------------------------------------------------------------
(* Flag values that never change (the defaults of main.go:41-47).          *)

fields == "review_body"
textField == "review_body"
tableName == "amazon"

---------------------------------------------------------------------------
(* The server: a table of rows (time, millis, text), queried over HTTP.    *)

\* the timestamps of the model, "1" before "2"
Times == {<<49>>, <<50>>}
Millis == {500, 600, 700}
\* "e" is what the scans of the model search for
Texts == {<<101>>, <<98>>}
\* three instants of the first second and the first instant of the next one
Rows ==
    {r \in [time : Times, millis : Millis, text : Texts] :
        r.time = <<50>> => r.millis = 500}

\* every table of at most n rows
Tables(n) == {t \in SUBSET Rows : Cardinality(t) <= n}

\* the (time, millis) order of ORDER BY time, millis
KeyLess(a, b) ==
    StrLess(a.time, b.time) \/ (a.time = b.time /\ a.millis < b.millis)

\* every order in which the server may return rows under ORDER BY time,
\* millis (descending with DESC); rows of equal key come in any order
Orderings(rows, descending) ==
    LET n == Cardinality(rows)
    IN  {s \in [1..n -> rows] :
            /\ \A i, j \in 1..n : i # j => s[i] # s[j]
            /\ \A i \in 1..(n - 1) :
                  IF descending THEN ~KeyLess(s[i], s[i + 1])
                  ELSE ~KeyLess(s[i + 1], s[i])}

\* a row in FORMAT TabSeparatedRaw
RenderRow(r) == r.time \o <<TAB>> \o Dec(r.millis) \o <<TAB>> \o r.text \o <<LF>>

RenderRows(s) == Concat([i \in 1..Len(s) |-> RenderRow(s[i])])

\* the body of a failed query: one line of error text
ErrorBody == <<69, LF>>

\* lines that are no rows of the table, as a failing server sends them:
\* text without a tab, text with one tab, text with two tabs and a quote
PlainLine == <<120, LF>>
OneTabLine == <<97, TAB, 98, LF>>
QuoteLine == <<SQ, TAB, 55, TAB, 101, LF>>
Faults == {<<PlainLine>>, <<OneTabLine>>, <<QuoteLine>>, <<PlainLine, OneTabLine>>}
NoFault == [at |-> 0, lines |-> <<>>]

\* whether row r satisfies one predicate of the main query's filter (the
\* patterns of the model hold no regular expression operator)
Satisfies(r, cond) ==
    LET v == Unescape(cond.lit)
    IN  CASE cond.fn = "position" -> Contains(r.text, v)
          [] cond.fn = "match" -> Contains(r.text, v)
          [] cond.fn = "before" -> StrLess(r.time, v)
          [] cond.fn = "after" -> StrLess(v, r.time)

\* whether the server can run the main query: its filter is an expression
\* and every literal in it is one literal (and a time where a time is due)
MainQueryValid(q) ==
    /\ q.where # <<>>
    /\ \A i \in 1..Len(q.where) :
          /\ ~ClosesLiteral(q.where[i].lit)
          /\ q.where[i].fn \in {"before", "after"}
                => Unescape(q.where[i].lit) \in Times

\* the bodies the server may answer the main query with
MainBodies(q, tbl, extra) ==
    IF ~MainQueryValid(q) THEN {ErrorBody}
    ELSE LET hit == {r \in tbl : \A i \in 1..Len(q.where) : Satisfies(r, q.where[i])}
             at == IF extra.at > Cardinality(hit) THEN Cardinality(hit) ELSE extra.at
         IN  {RenderRows(SubSeq(s, 1, at)) \o Concat(extra.lines)
                  \o RenderRows(SubSeq(s, at + 1, Len(s))) :
              s \in Orderings(hit, q.desc # "")}

\* the rows a context query selects
ContextHit(q, tbl) ==
    LET T == Unescape(q.lit)
    IN  {r \in tbl :
            IF q.comparison = "<"
            THEN (r.time = T /\ r.millis < q.millis) \/ StrLess(r.time, T)
            ELSE (r.time = T /\ r.millis > q.millis) \/ StrLess(T, r.time)}

\* the rows (in order) the server may answer a context query with
ContextRows(q, tbl) ==
    {SubSeq(s, 1, IF q.limit < Len(s) THEN q.limit ELSE Len(s)) :
        s \in Orderings(ContextHit(q, tbl), q.desc # "")}

\* the bodies the server may answer a context query with
ContextBodies(q, tbl) ==
    IF ClosesLiteral(q.lit) \/ Unescape(q.lit) \notin Times THEN {ErrorBody}
    ELSE {RenderRows(s) : s \in ContextRows(q, tbl)}

\* header lines of a response
HeaderLines == {"other", "progress", "badprogress"}
\* strings.HasPrefix(ln, "X-ClickHouse-Progress: ")
HasProgressPrefix(ln) == ln \in {"progress", "badprogress"}
\* whether json.Unmarshal decodes the payload into Progress
Unmarshals(ln) == ln = "progress"

\* the number of lines of a body
LineCount(body) == Cardinality({i \in 1..Len(body) : body[i] = LF})

---------------------------------------------------------------------------
(* Building the queries (main.go:93-135, 172-184).                         *)

\* a predicate of the filter: the function applied to column col and the
\* literal 'lit', lit being what stands between the quotes for value arg
\* makeFilterConds: one predicate per flag that is set, in this order
makeFilterConds ==
    (IF fixedString # <<>>
     THEN <<[fn |-> "position", col |-> textField,
             arg |-> fixedString, lit |-> Escape(fixedString)]>>
     ELSE <<>>)
    \o (IF regexString # <<>>
        THEN <<[fn |-> "match", col |-> textField,
                arg |-> regexString, lit |-> Escape(regexString)]>>
        ELSE <<>>)
    \o (IF before # <<>>
        THEN <<[fn |-> "before", col |-> "time",
                arg |-> before, lit |-> Escape(before)]>>
        ELSE <<>>)
    \o (IF after # <<>>
        THEN <<[fn |-> "after", col |-> "time",
                arg |-> after, lit |-> Escape(after)]>>
        ELSE <<>>)

\* the query of runMain; where is strings.Join(makeFilterConds(), " AND "),
\* kept as the sequence of the predicates joined: <<>> is the empty string
MainQuery ==
    [kind |-> "main", fields |-> fields, table |-> tableName,
     where |-> makeFilterConds,
     desc |-> IF ~reverse THEN "" ELSE " DESC"]

\* the test of main.go:121 and of main.go:159 respectively, wrong ways round
ContextAscendingSwapped(isBefore) == ~((reverse /\ isBefore) \/ (~isBefore /\ ~reverse))
MustReverseNever(desc) == FALSE

\* main.go:121: whether the context query compares with > and sorts ascending
ContextAscending(isBefore) == (reverse /\ isBefore) \/ (~isBefore /\ ~reverse)

\* a context query that asks for one row more than the flag says
ContextQueryOneMore(date, millis, isBefore, numLines) ==
    [kind |-> "context", fields |-> fields, table |-> tableName,
     date |-> date, lit |-> date, millis |-> millis,
     comparison |-> IF ContextAscending(isBefore) THEN ">" ELSE "<",
     desc |-> IF ContextAscending(isBefore) THEN "" ELSE " DESC",
     limit |-> numLines + 1]

\* a context query that always sorts descending
ContextQueryAlwaysDescending(date, millis, isBefore, numLines) ==
    [kind |-> "context", fields |-> fields, table |-> tableName,
     date |-> date, lit |-> date, millis |-> millis,
     comparison |-> IF ContextAscending(isBefore) THEN ">" ELSE "<",
     desc |-> " DESC",
     limit |-> numLines]

\* the query of printContextResults: date stands between the quotes of both
\* literals of the query as it is (lit)
ContextQuery(date, millis, isBefore, numLines) ==
    [kind |-> "context", fields |-> fields, table |-> tableName,
     date |-> date, lit |-> date, millis |-> millis,
     comparison |-> IF ContextAscending(isBefore) THEN ">" ELSE "<",
     desc |-> IF ContextAscending(isBefore) THEN "" ELSE " DESC",
     limit |-> numLines]

\* main.go:159: whether the lines of a context result are reversed
MustReverse(desc) == (desc = "" /\ reverse) \/ (desc # "" /\ ~reverse)

---------------------------------------------------------------------------
(* printResults (main.go:241-281) and printContextResults (main.go:115-170) *)

\* a reader that hands out the line that ends the data instead of the one
\* that starts it
ReadStringLast(data) ==
    LET ends == {i \in 1..Len(data) : data[i] = LF}
    IN  IF ends = {} THEN [ln |-> data, rest |-> <<>>, eof |-> TRUE]
        ELSE LET j == CHOOSE e \in ends : \A f \in ends : f <= e
                 starts == {0} \cup (ends \ {j})
                 k == CHOOSE e \in starts : \A f \in starts : f <= e
             IN  [ln |-> SubSeq(data, k + 1, j),
                  rest |-> SubSeq(data, 1, k) \o SubSeq(data, j + 1, Len(data)),
                  eof |-> FALSE]

\* rd.ReadString('\n'): the line with its newline, what is left, and io.EOF
\* with the rest of the data when no newline is left
ReadString(data) ==
    LET i == IndexByte(data, LF)
    IN  IF i = 0 THEN [ln |-> data, rest |-> <<>>, eof |-> TRUE]
        ELSE [ln |-> SubSeq(data, 1, i), rest |-> SubSeq(data, i + 1, Len(data)),
              eof |-> FALSE]

\* the row with only the end of its payload trimmed
FormatRowTrimmedAtEnd(date, millis, rest) ==
    LET payload == ReplaceAll(rest, TAB, SP)
        kept == {i \in 1..Len(payload) : ~IsSpace(payload[i])}
        hi == IF kept = {} THEN 0 ELSE CHOOSE i \in kept : \A j \in kept : j <= i
    IN  date \o <<Dot>> \o Pad3(millis) \o <<TAB>> \o SubSeq(payload, 1, hi) \o <<LF>>

\* the line of main.go:267
FormatRow(date, millis, rest) ==
    date \o <<Dot>> \o Pad3(millis) \o <<TAB>>
         \o TrimSpace(ReplaceAll(rest, TAB, SP)) \o <<LF>>

\* An entry of stdout: the bytes written, and for the record what wrote them
\* (src: "main", "before", "after"; n: the number of the main row at hand).

\* the verbatim path with the tabs of the line turned into spaces, as the
\* rows have them
RawWriteCollapsed(ln, src, n) ==
    [text |-> ReplaceAll(ln, TAB, SP), kind |-> "raw", src |-> src, n |-> n,
     date |-> <<>>, millis |-> 0]
\* main.go:252: the line as it was read
RawWrite(ln, src, n) ==
    [text |-> ln, kind |-> "raw", src |-> src, n |-> n, date |-> <<>>, millis |-> 0]
\* main.go:267
RowWrite(date, millis, rest, src, n) ==
    [text |-> FormatRow(date, millis, rest), kind |-> "row", src |-> src, n |-> n,
     date |-> date, millis |-> millis]
\* main.go:276
SepWrite(n) ==
    [text |-> <<45, 45, 45, LF>>, kind |-> "sep", src |-> "main", n |-> n,
     date |-> <<>>, millis |-> 0]

\* main.go:251
IsMalformed(parts) == Len(parts) < 3

RECURSIVE printResultsSeparating(_, _, _)
\* printResults writing a separator after every row it is given
printResultsSeparating(data, src, n) ==
    LET r == ReadString(data)
        parts == SplitN(r.ln, TAB, 3)
    IN  IF r.eof THEN <<>>
        ELSE IF IsMalformed(parts)
        THEN <<RawWrite(r.ln, src, n)>> \o printResultsSeparating(r.rest, src, n)
        ELSE <<RowWrite(parts[1], Atoi(parts[2]), parts[3], src, n), SepWrite(n)>>
                 \o printResultsSeparating(r.rest, src, n)

RECURSIVE printResultsNoContext(_, _, _)
\* printResults(rd, false): everything it writes for the data it is given
printResultsNoContext(data, src, n) ==
    LET r == ReadString(data)
        parts == SplitN(r.ln, TAB, 3)
    IN  IF r.eof THEN <<>>
        ELSE IF IsMalformed(parts)
        THEN <<RawWrite(r.ln, src, n)>> \o printResultsNoContext(r.rest, src, n)
        ELSE <<RowWrite(parts[1], Atoi(parts[2]), parts[3], src, n)>>
                 \o printResultsNoContext(r.rest, src, n)

\* what printContextResults hands to printResults, given the body read
ContextLines(allLines, desc) ==
    LET res == Split(TrimSpace(allLines), LF)
        ordered == IF MustReverse(desc) THEN Reversed(res) ELSE res
    IN  Join(ordered, <<LF>>) \o <<LF>>

---------------------------------------------------------------------------
(* The initial states: the flags as parsed, the server's table and         *)
(* behaviour, nothing sent or written yet.  The runs of the model vary     *)
(* one thing at a time: the table and the context flags; the lines a       *)
(* server adds to its rows; the search and time flags; the header lines.   *)

Needle == <<101>>
NoRow == [date |-> <<>>, millis |-> 0, rest |-> <<>>, n |-> 0]
NoResponse == [headers |-> <<>>, body |-> <<>>]
PlainHeaders == [lines |-> <<>>, blank |-> TRUE]
OneRowTable == {[time |-> <<49>>, millis |-> 500, text |-> Needle]}
\* values of -F, -E, -before and -after
FlagStrings == {<<>>, Needle, <<SQ>>}
TimeStrings == {<<>>, <<49>>, <<SQ>>}

ProgramStart ==
    /\ pc = "main"
    /\ cur = NoRow
    /\ rd = NoResponse
    /\ stdout = <<>>
    /\ stderr = <<>>
    /\ err = "nil"
    /\ queries = <<>>
    /\ ctxLog = <<>>
    /\ connLog = <<>>
    /\ status = "running"
    /\ watch = "off"
    /\ sigs = 0
    /\ prev = <<>>
    /\ tailf = FALSE
    /\ txt = <<>>
    /\ buf = <<>>

ContextFlags ==
    /\ beforeLines \in 0..MaxContext
    /\ afterLines \in 0..MaxContext
    /\ contextLines \in 0..MaxContext
    /\ contextLines # 0 => beforeLines = 0 /\ afterLines = 0

SearchForNeedle ==
    /\ fixedString = Needle
    /\ regexString = <<>>
    /\ before = <<>>
    /\ after = <<>>

InitScan ==
    /\ SearchForNeedle
    /\ reverse \in BOOLEAN
    /\ ContextFlags
    /\ table \in Tables(MaxRows)
    /\ hdrs = PlainHeaders
    /\ fault = NoFault
    /\ keepAlive = FALSE

InitFault ==
    /\ SearchForNeedle
    /\ reverse \in BOOLEAN
    /\ beforeLines = 0
    /\ afterLines = 0
    /\ contextLines \in {0, 1}
    /\ table \in Tables(MaxRows - 1)
    /\ hdrs = PlainHeaders
    /\ fault \in [at : 0..(MaxRows - 1), lines : Faults]
    /\ keepAlive = FALSE

InitFlags ==
    /\ fixedString \in FlagStrings
    /\ regexString \in FlagStrings
    /\ before \in TimeStrings
    /\ after \in TimeStrings
    /\ reverse \in BOOLEAN
    /\ beforeLines = 0
    /\ afterLines = 0
    /\ contextLines = 0
    /\ table = OneRowTable
    /\ hdrs = PlainHeaders
    /\ fault = NoFault
    /\ keepAlive = FALSE

InitHeaders ==
    /\ SearchForNeedle
    /\ reverse = TRUE
    /\ beforeLines = 0
    /\ afterLines = 0
    /\ contextLines = 0
    /\ table = OneRowTable
    /\ hdrs \in [lines : StringsUpTo(HeaderLines, MaxHeaders), blank : BOOLEAN]
    /\ fault = NoFault
    /\ keepAlive = FALSE

\* a server that keeps HTTP connections alive
InitKeepAlive ==
    /\ SearchForNeedle
    /\ reverse \in BOOLEAN
    /\ beforeLines = 0
    /\ afterLines = 0
    /\ contextLines = 1
    /\ table \in Tables(MaxRows - 1)
    /\ hdrs = PlainHeaders
    /\ fault = NoFault
    /\ keepAlive = TRUE

Init ==
    ProgramStart /\ (InitScan \/ InitFault \/ InitFlags \/ InitHeaders \/ InitKeepAlive)

---------------------------------------------------------------------------
(* The steps of the program.                                               *)

\* the connections of connLog that were opened, and those still open
Opened(log) == {log[i].id : i \in {j \in DOMAIN log : log[j].op = "open"}}
Closed(log) == {log[i].id : i \in {j \in DOMAIN log : log[j].op = "close"}}
StillOpen(log) == Opened(log) \ Closed(log)

\* net.Dial (main.go:195) hands out a connection that did not exist before,
\* and so does http.Get (main.go:144) when it has to dial
Open(log, kind) ==
    Append(log, [op |-> "open", id |-> Cardinality(Opened(log)) + 1, kind |-> kind])

\* the connection the function that runs holds: the one it took last
Mine(log, kind) ==
    LET took == {i \in DOMAIN log : log[i].kind = kind /\ log[i].op \in {"open", "reuse"}}
    IN  log[CHOOSE i \in took : \A j \in took : j <= i].id

\* a return that leaves the connection as it is
CloseLeaked(log, kind) == log
\* the deferred conn.Close() of runMain (main.go:199), and the close of a
\* response whose connection cannot serve another request
Close(log, kind) ==
    Append(log, [op |-> "close", id |-> Mine(log, kind), kind |-> kind])

\* the connections the HTTP client holds open with no request on them:
\* http.Get (main.go:144) goes through http.DefaultClient, whose transport
\* keeps a connection for the next request when the server allows it
Idle(log) ==
    {c \in StillOpen(log) :
        \E i \in DOMAIN log :
            /\ log[i].id = c /\ log[i].op = "idle"
            /\ \A j \in DOMAIN log : j > i => log[j].id # c}

\* http.Get (main.go:144): the request goes out on an idle connection when
\* there is one, on a new one when there is none
Acquire(log) ==
    IF Idle(log) = {} THEN Open(log, "context")
    ELSE Append(log, [op |-> "reuse", id |-> CHOOSE c \in Idle(log) : TRUE,
                      kind |-> "context"])

\* the deferred resp.Body.Close() (main.go:148) once the body is read to its
\* end: the connection goes back to the client, open, when the server keeps
\* connections alive, and is closed when it does not
Release(log) ==
    IF keepAlive
    THEN Append(log, [op |-> "idle", id |-> Mine(log, "context"), kind |-> "context"])
    ELSE Close(log, "context")

\* the error texts that hold "broken pipe" (main.go:299): those of a write
\* that met EPIPE
MentionsBrokenPipe(e) == e \in {"write: broken pipe", "stdout: broken pipe"}

\* main up to the call of runMain (main.go:283-296): -C sets both -B and -A,
\* SIGPIPE is routed to the channel and the task that waits for it is started
Main ==
    /\ pc = "main"
    /\ IF contextLines # 0
       THEN beforeLines' = contextLines /\ afterLines' = contextLines
       ELSE UNCHANGED <<beforeLines, afterLines>>
    /\ watch' = "started"
    /\ pc' = "runMain"
    /\ UNCHANGED <<fixedString, regexString, before, after, reverse, contextLines,
                   serverVars, rd, cur, stdout, stderr, err, queries, ctxLog, escVars, ctlVars,
                   connLog, status, sigs>>

\* runMain up to the request being sent (main.go:172-210)
RunMain ==
    /\ pc = "runMain"
    /\ \/ \* net.Dial fails
          /\ err' = "connect"
          /\ pc' = "failed"
          /\ UNCHANGED <<rd, queries, connLog>>
       \/ \* the write of the request fails (main.go:203-208), with EPIPE when
          \* the server has closed the connection
          /\ err' \in {"write", "write: broken pipe"}
          /\ pc' = "failed"
          /\ connLog' = Close(Open(connLog, "main"), "main")
          /\ UNCHANGED <<rd, queries>>
       \/ \E body \in MainBodies(MainQuery, table, fault) :
             /\ queries' = Append(queries, MainQuery)
             /\ rd' = [headers |-> hdrs.lines \o (IF hdrs.blank THEN <<"blank">> ELSE <<>>),
                       body |-> body]
             /\ connLog' = Open(connLog, "main")
             /\ pc' = "headers"
             /\ UNCHANGED err
    /\ UNCHANGED <<flagVars, serverVars, cur, stdout, stderr, ctxLog, escVars, ctlVars, procVars>>

\* a progress header that does not decode is passed over
HeaderOutcomeLenient(ln) ==
    IF ln = "blank" THEN "break"
    ELSE IF HasProgressPrefix(ln) /\ Unmarshals(ln) THEN "progress"
    ELSE "skip"

\* what the header loop does with a line it has read (main.go:217-233)
HeaderOutcome(ln) ==
    IF ln = "blank" THEN "break"
    ELSE IF HasProgressPrefix(ln)
    THEN IF Unmarshals(ln) THEN "progress" ELSE "error"
    ELSE "skip"

\* one round of the header loop (main.go:212-236)
ReadHeader ==
    /\ pc = "headers"
    /\ IF rd.headers = <<>>
       THEN \* the stream ends, or fails, ahead of the blank line
            /\ err' = "headers"
            /\ pc' = "failed"
            /\ connLog' = Close(connLog, "main")
            /\ UNCHANGED <<rd, stderr>>
       ELSE LET what == HeaderOutcome(Head(rd.headers))
            IN  /\ rd' = [rd EXCEPT !.headers = Tail(@)]
                /\ CASE what = "break" ->
                          /\ stderr' = Append(stderr, "clearLine")
                          /\ pc' = "body"
                          /\ UNCHANGED <<err, connLog>>
                     [] what = "progress" ->
                          /\ stderr' = Append(stderr, "Progress")
                          /\ UNCHANGED <<pc, err, connLog>>
                     [] what = "error" ->
                          /\ err' = "unmarshalling"
                          /\ pc' = "failed"
                          /\ connLog' = Close(connLog, "main")
                          /\ UNCHANGED stderr
                     [] what = "skip" -> UNCHANGED <<pc, err, stderr, connLog>>
    /\ UNCHANGED <<flagVars, serverVars, cur, stdout, queries, ctxLog, escVars, ctlVars, procVars>>

\* printResults(rd, true) reads a line (main.go:242-259)
ReadLine ==
    /\ pc = "body"
    /\ LET r == ReadString(rd.body)
           parts == SplitN(r.ln, TAB, 3)
       IN  IF r.eof
           THEN /\ pc' = "done"
                /\ connLog' = Close(connLog, "main")
                /\ UNCHANGED <<rd, cur, stdout, err>>
           ELSE /\ rd' = [rd EXCEPT !.body = r.rest]
                /\ IF IsMalformed(parts)
                   THEN \/ /\ stdout' = Append(stdout, RawWrite(r.ln, "main", cur.n))
                           /\ UNCHANGED <<pc, cur, err, connLog>>
                        \/ \* the write meets EPIPE (main.go:252-254): the
                           \* reader of standard output is gone, which SIGPIPE
                           \* has told the process
                           /\ sigs > 0
                           /\ err' = "stdout: broken pipe"
                           /\ pc' = "failed"
                           /\ connLog' = Close(connLog, "main")
                           /\ UNCHANGED <<cur, stdout>>
                   ELSE /\ cur' = [date |-> parts[1], millis |-> Atoi(parts[2]),
                                   rest |-> parts[3], n |-> cur.n + 1]
                        /\ pc' = "before"
                        /\ UNCHANGED <<stdout, err, connLog>>
    /\ UNCHANGED <<flagVars, serverVars, stderr, queries, ctxLog, escVars, ctlVars, procVars>>

\* printContextResults(cur.date, cur.millis, isBefore, numLines), and the
\* return of printResults and runMain when it fails (main.go:262-264, 270-272)
ContextScan(isBefore, numLines, next) ==
    LET q == ContextQuery(cur.date, cur.millis, isBefore, numLines)
        src == IF isBefore THEN "before" ELSE "after"
    IN  \/ \* http.Get fails (main.go:144-147): there is no response to close
           /\ err' = "context"
           /\ pc' = "failed"
           /\ connLog' = Close(connLog, "main")
           /\ UNCHANGED <<stdout, ctxLog, queries>>
        \/ \* the read of the body fails (main.go:150-153), with a server that
           \* fails while it answers
           /\ fault # NoFault
           /\ err' = "context"
           /\ pc' = "failed"
           /\ queries' = Append(queries, q)
           /\ connLog' = Close(Close(Acquire(connLog), "context"), "main")
           /\ UNCHANGED <<stdout, ctxLog>>
        \/ \E body \in ContextBodies(q, table) :
              LET out == printResultsNoContext(ContextLines(body, q.desc), src, cur.n)
              IN  /\ queries' = Append(queries, q)
                  /\ stdout' = stdout \o out
                  /\ ctxLog' = Append(ctxLog, [n |-> cur.n, isBefore |-> isBefore,
                                               rows |-> LineCount(body),
                                               wrote |-> Len(out)])
                  /\ connLog' = Release(Acquire(connLog))
                  /\ pc' = next
                  /\ UNCHANGED err

\* main.go:261-265
ContextBefore ==
    /\ pc = "before"
    /\ IF beforeLines > 0
       THEN ContextScan(TRUE, beforeLines, "print")
       ELSE pc' = "print" /\ UNCHANGED <<stdout, err, queries, ctxLog, connLog>>
    /\ UNCHANGED <<flagVars, serverVars, rd, cur, stderr, escVars, ctlVars, procVars>>

\* main.go:267
PrintMatch ==
    /\ pc = "print"
    /\ stdout' = Append(stdout, RowWrite(cur.date, cur.millis, cur.rest, "main", cur.n))
    /\ pc' = "after"
    /\ UNCHANGED <<flagVars, serverVars, rd, cur, stderr, err, queries, ctxLog, escVars, ctlVars,
                   connLog, procVars>>

\* main.go:269-273
ContextAfter ==
    /\ pc = "after"
    /\ IF afterLines > 0
       THEN ContextScan(FALSE, afterLines, "separator")
       ELSE pc' = "separator" /\ UNCHANGED <<stdout, err, queries, ctxLog, connLog>>
    /\ UNCHANGED <<flagVars, serverVars, rd, cur, stderr, escVars, ctlVars, procVars>>

\* a separator only after a -B window
WantsSeparatorBeforeOnly == beforeLines > 0
\* main.go:275, printContext being true
WantsSeparator == beforeLines > 0 \/ afterLines > 0

\* main.go:275-277
Separator ==
    /\ pc = "separator"
    /\ IF WantsSeparator
       THEN stdout' = Append(stdout, SepWrite(cur.n))
       ELSE UNCHANGED stdout
    /\ pc' = "body"
    /\ UNCHANGED <<flagVars, serverVars, rd, cur, stderr, err, queries, ctxLog, escVars, ctlVars,
                   connLog, procVars>>

\* the status main ends the process with, given what runMain returned
\* (main.go:298-304)
ExitStatus(e) == IF e = "nil" \/ MentionsBrokenPipe(e) THEN "0" ELSE "1"

\* main, once runMain has returned (main.go:298-305): it returns, or logs
\* the error and exits
ExitMain ==
    /\ pc \in {"done", "failed"}
    /\ status = "running"
    /\ status' = ExitStatus(err)
    /\ IF ExitStatus(err) = "0"
       THEN UNCHANGED stderr
       ELSE stderr' = Append(stderr, "FATAL error")
    /\ UNCHANGED <<flagVars, serverVars, rd, pc, cur, stdout, err, queries, ctxLog,
                   escVars, ctlVars, connLog, watch, sigs>>

Next ==
    \/ Main
    \/ RunMain
    \/ ReadHeader
    \/ ReadLine
    \/ ContextBefore
    \/ PrintMatch
    \/ ContextAfter
    \/ Separator

Spec == Init /\ [][Next]_vars

---------------------------------------------------------------------------
(* The whole process: the scan, the task that waits for SIGPIPE and the    *)
(* signals that arrive while it runs.                                      *)

\* the header lines of a response whose progress line does not decode
BadProgressHeaders == [lines |-> <<"badprogress">>, blank |-> TRUE]
\* a line that is no row, ahead of the rows of the response
PlainLineFirst == [at |-> 0, lines |-> <<PlainLine>>]

InitExit ==
    /\ ProgramStart
    /\ SearchForNeedle
    /\ reverse = TRUE
    /\ beforeLines = 0
    /\ afterLines = 0
    /\ contextLines \in {0, 1}
    /\ table = OneRowTable
    /\ hdrs \in {PlainHeaders, BadProgressHeaders}
    /\ fault \in {NoFault, PlainLineFirst}
    /\ keepAlive = FALSE

\* the task started at main.go:293 reaches its receive (main.go:294)
WatcherWait ==
    /\ status = "running"
    /\ watch = "started"
    /\ watch' = "waiting"
    /\ UNCHANGED <<flagVars, serverVars, rd, pc, cur, stdout, stderr, err, queries,
                   ctxLog, escVars, ctlVars, connLog, status, sigs>>

\* SIGPIPE arrives once signal.Notify has registered the channel.  The
\* channel of main.go:291 has no buffer and signal.Notify does not block:
\* the signal is handed over when the task is waiting in its receive, and
\* is lost when it is not
Sigpipe ==
    /\ status = "running"
    /\ watch # "off"
    /\ sigs < MaxSignals
    /\ sigs' = sigs + 1
    /\ watch' = IF watch = "waiting" THEN "woken" ELSE watch
    /\ UNCHANGED <<flagVars, serverVars, rd, pc, cur, stdout, stderr, err, queries,
                   ctxLog, escVars, ctlVars, connLog, status>>

\* the task has received the signal and calls os.Exit(0) (main.go:295):
\* the process is gone, wherever the main flow stood
WatcherExit ==
    /\ status = "running"
    /\ watch = "woken"
    /\ status' = "0"
    /\ pc' = "exited"
    /\ UNCHANGED <<flagVars, serverVars, rd, cur, stdout, stderr, err, queries,
                   ctxLog, escVars, ctlVars, connLog, watch, sigs>>

NextExit ==
    \/ Next
    \/ ExitMain
    \/ WatcherWait
    \/ Sigpipe
    \/ WatcherExit

SpecExit == InitExit /\ [][NextExit]_vars

---------------------------------------------------------------------------
(* printResults on one row of any content: the server answers the main     *)
(* query with a single line of three fields.                               *)

\* the bytes of a millis field: a sign, a digit, a letter
MillisAlphabet == {45, 55, 120}
\* the bytes of a payload: space, tab, a letter
PayloadAlphabet == {SP, TAB, 101}
\* time, millis and payload as FORMAT TabSeparatedRaw sends them
FieldLines ==
    {<<49>> \o <<TAB>> \o ms \o <<TAB>> \o rest \o <<LF>> :
        ms \in StringsUpTo(MillisAlphabet, MaxField),
        rest \in StringsUpTo(PayloadAlphabet, MaxField)}

InitFormat ==
    /\ ProgramStart
    /\ SearchForNeedle
    /\ reverse = FALSE
    /\ beforeLines = 0
    /\ afterLines = 0
    /\ contextLines = 0
    /\ table = {}
    /\ hdrs = PlainHeaders
    /\ fault \in {[at |-> 0, lines |-> <<ln>>] : ln \in FieldLines}
    /\ keepAlive = FALSE

SpecFormat == InitFormat /\ [][Next]_vars

---------------------------------------------------------------------------
(* The same command run again on the same table.                           *)

\* rows of which two share their (time, millis) key
TiedRows ==
    {[time |-> <<49>>, millis |-> 500, text |-> <<98>>],
     [time |-> <<49>>, millis |-> 500, text |-> Needle],
     [time |-> <<49>>, millis |-> 600, text |-> Needle],
     [time |-> <<50>>, millis |-> 500, text |-> <<98>>]}

InitTwice ==
    /\ ProgramStart
    /\ SearchForNeedle
    /\ reverse \in BOOLEAN
    /\ beforeLines = 0
    /\ afterLines = 0
    /\ contextLines \in {0, 1}
    /\ table \in SUBSET TiedRows
    /\ hdrs = PlainHeaders
    /\ fault = NoFault
    /\ keepAlive = FALSE

\* the process has ended with status 0 and the command is started again,
\* with the flags it was given and the table as it was
RunAgain ==
    /\ pc = "done"
    /\ status = "0"
    /\ Len(prev) < MaxRuns - 1
    /\ prev' = Append(prev, [stdout |-> stdout, queries |-> queries])
    /\ beforeLines' = IF contextLines # 0 THEN 0 ELSE beforeLines
    /\ afterLines' = IF contextLines # 0 THEN 0 ELSE afterLines
    /\ pc' = "main"
    /\ cur' = NoRow
    /\ rd' = NoResponse
    /\ stdout' = <<>>
    /\ stderr' = <<>>
    /\ err' = "nil"
    /\ queries' = <<>>
    /\ ctxLog' = <<>>
    /\ connLog' = <<>>
    /\ status' = "running"
    /\ watch' = "off"
    /\ UNCHANGED <<fixedString, regexString, before, after, reverse, contextLines,
                   serverVars, escVars, sigs, tailf>>

NextTwice ==
    \/ Next
    \/ ExitMain
    \/ RunAgain

SpecTwice == InitTwice /\ [][NextTwice]_vars

---------------------------------------------------------------------------
(* Tail mode (-tailf).  The flag is named in the usage text                *)
(* (main.go:325, 346-347); the controller below follows the description of *)
(* the Tail Controller: on entry the order is forced forward and a missing *)
(* lower time bound is set to a minute ago; each cycle is one full scan    *)
(* from the lower bound, after which the bound moves to the time of the    *)
(* last row written, if any, and the next cycle starts a second later.     *)
(* The lower bound is the -after flag: it is the cursor.                   *)

\* the time a minute before the command is started
NowMinusOneMinute == <<49>>

InitTail ==
    /\ pc = "tailf"
    /\ tailf = TRUE
    /\ fixedString = Needle
    /\ regexString = <<>>
    /\ before = <<>>
    /\ after \in {<<>>, <<49>>}
    /\ reverse \in BOOLEAN
    /\ beforeLines = 0
    /\ afterLines = 0
    /\ contextLines \in {0, 1}
    /\ table \in Tables(MaxRows - 1)
    /\ hdrs = PlainHeaders
    /\ fault = NoFault
    /\ keepAlive = FALSE
    /\ cur = NoRow /\ rd = NoResponse
    /\ stdout = <<>> /\ stderr = <<>> /\ err = "nil"
    /\ queries = <<>> /\ ctxLog = <<>> /\ connLog = <<>>
    /\ status = "running" /\ watch = "off" /\ sigs = 0
    /\ prev = <<>>
    /\ txt = <<>> /\ buf = <<>>

\* entry of tail mode
TailStart ==
    /\ pc = "tailf"
    /\ reverse' = FALSE
    /\ after' = IF after = <<>> THEN NowMinusOneMinute ELSE after
    /\ pc' = "main"
    /\ UNCHANGED <<fixedString, regexString, before, beforeLines, afterLines,
                   contextLines, serverVars, rd, cur, stdout, stderr, err, queries,
                   ctxLog, escVars, ctlVars, connLog, procVars>>

\* the cursor after a cycle that wrote the first row of out
NextCursorFirstRow(cursor, out) ==
    LET rows == {i \in DOMAIN out : out[i].kind = "row"}
    IN  IF rows = {} THEN cursor
        ELSE out[CHOOSE i \in rows : \A j \in rows : i <= j].date
\* the cursor after a cycle that wrote out: the time of the last row
\* written, the cursor as it was when none was
NextCursor(cursor, out) ==
    LET rows == {i \in DOMAIN out : out[i].kind = "row"}
    IN  IF rows = {} THEN cursor
        ELSE out[CHOOSE i \in rows : \A j \in rows : j <= i].date

\* the end of a cycle: the cursor moves, and the next scan starts after the
\* pause
TailCycle ==
    /\ tailf
    /\ pc = "done"
    /\ status = "running"
    /\ Len(prev) < MaxCycles - 1
    /\ prev' = Append(prev, [stdout |-> stdout, queries |-> queries, cursor |-> after])
    /\ after' = NextCursor(after, stdout)
    /\ pc' = "runMain"
    /\ cur' = NoRow
    /\ rd' = NoResponse
    /\ stdout' = <<>>
    /\ stderr' = <<>>
    /\ queries' = <<>>
    /\ ctxLog' = <<>>
    /\ connLog' = <<>>
    /\ UNCHANGED <<fixedString, regexString, before, reverse, beforeLines, afterLines,
                   contextLines, serverVars, err, escVars, tailf, procVars>>

\* a cycle that fails ends the process as a scan that fails does
TailFatal ==
    /\ pc = "failed"
    /\ ExitMain

NextTail ==
    \/ TailStart
    \/ Main
    \/ RunMain
    \/ ReadHeader
    \/ ReadLine
    \/ ContextBefore
    \/ PrintMatch
    \/ ContextAfter
    \/ Separator
    \/ TailCycle
    \/ TailFatal

SpecTail == InitTail /\ [][NextTail]_vars

---------------------------------------------------------------------------
(* A response whose last line has no newline: the stream ends after the    *)
(* last byte of the line.                                                  *)

\* a line that is no row, and a row, each without its newline
CutLines == {<<120>>, <<49, TAB, 55, TAB, 101>>}

InitCut ==
    /\ ProgramStart
    /\ SearchForNeedle
    /\ reverse \in BOOLEAN
    /\ beforeLines = 0
    /\ afterLines = 0
    /\ contextLines \in {0, 1}
    /\ table \in Tables(1)
    /\ hdrs = PlainHeaders
    /\ fault \in {[at |-> 1, lines |-> <<ln>>] : ln \in CutLines}
    /\ keepAlive = FALSE

SpecCut == InitCut /\ [][Next]_vars

---------------------------------------------------------------------------
(* Escape on its own, on every string over these bytes.                    *)

EscapeAlphabet == {NUL, LF, CR, BS, SQ, DQ, SUB, 97, LetterN, LetterZ, Digit0, 195, 169}

InitEscape ==
    /\ txt \in StringsUpTo(EscapeAlphabet, MaxLen)
    /\ buf = <<>>
    /\ pc = "escape"
    /\ fixedString = <<>> /\ regexString = <<>> /\ before = <<>> /\ after = <<>>
    /\ reverse = TRUE
    /\ beforeLines = 0 /\ afterLines = 0 /\ contextLines = 0
    /\ table = {} /\ hdrs = PlainHeaders /\ fault = NoFault /\ keepAlive = FALSE
    /\ rd = NoResponse /\ cur = NoRow
    /\ stdout = <<>> /\ stderr = <<>> /\ err = "nil"
    /\ queries = <<>> /\ ctxLog = <<>> /\ connLog = <<>>
    /\ status = "running" /\ watch = "off" /\ sigs = 0
    /\ prev = <<>> /\ tailf = FALSE

EscapeCall ==
    /\ pc = "escape"
    /\ buf' = Escape(txt)
    /\ pc' = "escaped"
    /\ UNCHANGED <<flagVars, serverVars, rd, cur, stdout, stderr, err, queries,
                   ctxLog, txt, connLog, procVars, ctlVars>>

NextEscape == EscapeCall

SpecEscape == InitEscape /\ [][NextEscape]_vars

---------------------------------------------------------------------------
(* What the properties below speak of.                                     *)

\* the (time, millis) order on entries of stdout that are rows
WrittenBefore(a, b) ==
    StrLess(a.date, b.date) \/ (a.date = b.date /\ a.millis < b.millis)

\* entries i and j of stdout are rows of one context window
SameWindow(i, j) ==
    /\ stdout[i].kind = "row" /\ stdout[j].kind = "row"
    /\ stdout[i].src \in {"before", "after"}
    /\ stdout[i].src = stdout[j].src
    /\ stdout[i].n = stdout[j].n

\* printResults is through with main row n: its separator, if any, is out
Completed(n) == n \in 1..cur.n /\ (n < cur.n \/ pc \in {"body", "done"})

\* the entries of stdout that main row n accounts for
Group(n) == {i \in DOMAIN stdout : stdout[i].n = n /\ ~(stdout[i].kind = "raw" /\ stdout[i].src = "main")}
Separators(n) == {i \in DOMAIN stdout : stdout[i].kind = "sep" /\ stdout[i].n = n}
MatchLines(n) ==
    {i \in DOMAIN stdout : stdout[i].kind = "row" /\ stdout[i].src = "main" /\ stdout[i].n = n}

\* the line a table row is displayed as
DisplayLine(r) == r.time \o <<Dot>> \o Pad3(r.millis) \o <<TAB>> \o r.text \o <<LF>>

\* the rows of the table whose key lies strictly between those of b and a
Between(b, a) == {x \in table : KeyLess(b, x) /\ KeyLess(x, a)}

\* row r is written in the src window of the match written for row m
InWindowOf(r, src, m) ==
    \E i, j \in DOMAIN stdout :
        /\ stdout[j].kind = "row" /\ stdout[j].src = "main"
        /\ stdout[j].text = DisplayLine(m)
        /\ stdout[i].kind = "row" /\ stdout[i].src = src /\ stdout[i].n = stdout[j].n
        /\ stdout[i].text = DisplayLine(r)

\* the scan of the example: reverse order, one line of context on each side
OneLineOfContextInReverse ==
    reverse /\ beforeLines = 1 /\ afterLines = 1 /\ pc = "done"

\* the table of the example: matches at 500 and 700, another row at 600
ExampleTable ==
    {[time |-> <<49>>, millis |-> 500, text |-> Needle],
     [time |-> <<49>>, millis |-> 600, text |-> <<98>>],
     [time |-> <<49>>, millis |-> 700, text |-> Needle]}

\* stdout without the lines written verbatim, as (text, src) pairs
RowsAndSeparators ==
    LET kept == SelectSeq(stdout, LAMBDA c : c.kind # "raw")
    IN  [i \in 1..Len(kept) |-> <<kept[i].text, kept[i].src>>]

---------------------------------------------------------------------------
(* C1 (as the spec states it): the rows of every context window are        *)
(* written in ascending (time, millis) order, whichever way the main scan  *)
(* runs.                                                                   *)
ContextWindowsForwardInTime ==
    \A i, j \in DOMAIN stdout :
        i < j /\ SameWindow(i, j) => ~WrittenBefore(stdout[j], stdout[i])

(* C1 (amended): the rows of every context window are written in the       *)
(* direction of the main scan: in ascending (time, millis) order when      *)
(* reverse is false, in descending order when reverse is true.             *)
ContextWindowsFollowScanDirection ==
    \A i, j \in DOMAIN stdout :
        i < j /\ SameWindow(i, j) =>
            IF reverse THEN ~WrittenBefore(stdout[i], stdout[j])
            ELSE ~WrittenBefore(stdout[j], stdout[i])

\* a window of two rows of different keys, written in a reverse scan
ReverseWindowOfTwoWritten ==
    /\ reverse
    /\ \E i, j \in DOMAIN stdout :
          i < j /\ SameWindow(i, j) /\ WrittenBefore(stdout[j], stdout[i])

---------------------------------------------------------------------------
(* C2 (as the spec states it): in reverse order with one line of context   *)
(* on each side, a row that lies alone between two matches is in the       *)
(* 'after' window of the later match and in the 'before' window of the     *)
(* earlier one, and each match is written as: the match line, then its     *)
(* context rows, then one separator.                                       *)
MatchThenContextThenSeparator ==
    OneLineOfContextInReverse =>
        /\ \A a, b, r \in table :
              (Contains(a.text, Needle) /\ Contains(b.text, Needle) /\ Between(b, a) = {r})
                  => InWindowOf(r, "after", a) /\ InWindowOf(r, "before", b)
        /\ \A n \in 1..cur.n :
              /\ Cardinality(Separators(n)) = 1
              /\ \A i \in Group(n), m \in MatchLines(n), e \in Separators(n) :
                    stdout[i].kind = "row" => m <= i /\ i < e

(* C2 (amended): in reverse order with one line of context on each side, a *)
(* row that lies alone between two matches is in the 'after' window of the *)
(* later match and in the 'before' window of the earlier one, and each     *)
(* match is written as: its 'before' window, the match line, its 'after'   *)
(* window, then one separator.  For matches at 500 and 700 and a row at    *)
(* 600 the rows and separators written are: the 700 match, the 600 row     *)
(* (after), separator, the 600 row (before), the 500 match, separator.     *)
BeforeThenMatchThenAfterThenSeparator ==
    OneLineOfContextInReverse =>
        /\ \A a, b, r \in table :
              (Contains(a.text, Needle) /\ Contains(b.text, Needle) /\ Between(b, a) = {r})
                  => InWindowOf(r, "after", a) /\ InWindowOf(r, "before", b)
        /\ \A n \in 1..cur.n :
              /\ Cardinality(Separators(n)) = 1
              /\ Cardinality(MatchLines(n)) = 1
              /\ \A i \in Group(n), m \in MatchLines(n), e \in Separators(n) :
                    /\ stdout[i].src = "before" => i < m
                    /\ stdout[i].src = "after" => m < i /\ i < e
        /\ (table = ExampleTable /\ fault = NoFault) =>
              RowsAndSeparators =
                  << <<DisplayLine([time |-> <<49>>, millis |-> 700, text |-> Needle]), "main">>,
                     <<DisplayLine([time |-> <<49>>, millis |-> 600, text |-> <<98>>]), "after">>,
                     <<SepWrite(0).text, "main">>,
                     <<DisplayLine([time |-> <<49>>, millis |-> 600, text |-> <<98>>]), "before">>,
                     <<DisplayLine([time |-> <<49>>, millis |-> 500, text |-> Needle]), "main">>,
                     <<SepWrite(0).text, "main">> >>

\* the scan of the example has run to its end
ExampleScanDone == OneLineOfContextInReverse /\ table = ExampleTable /\ fault = NoFault

---------------------------------------------------------------------------
(* C3 (as the spec states it): a match is followed by exactly one          *)
(* separator if and only if one of its context windows is not empty, and   *)
(* no separator is written when no context is requested.                   *)
SeparatorIffWindowNotEmpty ==
    \A n \in 1..cur.n :
        Completed(n) =>
            /\ Cardinality(Separators(n)) <= 1
            /\ Cardinality(Separators(n)) = 1
                  <=> \E k \in DOMAIN ctxLog : ctxLog[k].n = n /\ ctxLog[k].rows > 0

(* C3 (amended): a match is followed by exactly one separator if and only  *)
(* if context is requested (-B, -A or -C above 0), whether or not its      *)
(* context scans return any row; no separator is written when no context   *)
(* is requested, and none for a match that is not yet through.             *)
SeparatorIffContextRequested ==
    /\ \A n \in 1..cur.n :
          Cardinality(Separators(n)) =
              IF Completed(n) /\ (beforeLines > 0 \/ afterLines > 0) THEN 1 ELSE 0
    /\ \A i \in DOMAIN stdout : stdout[i].kind = "sep" => stdout[i].n \in 1..cur.n

\* a match both of whose context scans returned nothing, with its separator
SeparatorAfterEmptyWindows ==
    \E n \in 1..cur.n :
        /\ Completed(n)
        /\ Cardinality(Separators(n)) = 1
        /\ \E k \in DOMAIN ctxLog : ctxLog[k].n = n
        /\ \A k \in DOMAIN ctxLog : ctxLog[k].n = n => ctxLog[k].rows = 0

---------------------------------------------------------------------------
(* C4: standard output holds one line per row received and the separator   *)
(* lines, nothing else: every context scan writes as many lines as the     *)
(* server returned rows, none when it returned none.                       *)
OnlyRowsAndSeparatorsWritten ==
    /\ \A k \in DOMAIN ctxLog : ctxLog[k].wrote = ctxLog[k].rows
    /\ \A i \in DOMAIN stdout : stdout[i].text # <<LF>>

---------------------------------------------------------------------------
(* C5: the filter of the main query is never the empty string: whatever    *)
(* flags are set, and when none is, it holds at least one predicate (a     *)
(* base predicate that is always true).                                    *)
FilterNeverEmpty ==
    \A k \in DOMAIN queries : queries[k].kind = "main" => queries[k].where # <<>>

---------------------------------------------------------------------------
(* C6: what stands between the quotes of a literal of a query, of the main *)
(* scan or of a context scan, is Escape of the value it is built from.     *)
EveryLiteralEscaped ==
    \A k \in DOMAIN queries :
        IF queries[k].kind = "main"
        THEN \A c \in DOMAIN queries[k].where :
                 queries[k].where[c].lit = Escape(queries[k].where[c].arg)
        ELSE queries[k].lit = Escape(queries[k].date)

---------------------------------------------------------------------------
(* C7: what the server reads back from Escape(x), put between quotes, is   *)
(* x again, and Escape(x) does not end the literal it stands in.           *)
EscapeRoundTrips ==
    pc = "escaped" => Unescape(buf) = txt /\ ~ClosesLiteral(buf)

---------------------------------------------------------------------------
\* the escape sequence of byte b, or b itself
ReferenceByte(b) ==
    IF b = NUL THEN <<BS, 48>>
    ELSE IF b = LF THEN <<BS, 110>>
    ELSE IF b = CR THEN <<BS, 114>>
    ELSE IF b = BS THEN <<BS, 92>>
    ELSE IF b = SQ THEN <<BS, 39>>
    ELSE IF b = DQ THEN <<BS, 34>>
    ELSE IF b = SUB THEN <<BS, 90>>
    ELSE <<b>>

(* C8: Escape is the byte by byte map NUL -> \0, newline -> \n, carriage   *)
(* return -> \r, backslash -> \\, single quote -> \', double quote -> \",  *)
(* SUB -> \Z, every other byte copied, in the order of the input; the      *)
(* empty string and strings that start or end with an escaped byte         *)
(* included.                                                               *)
EscapeIsTheReferenceMap ==
    pc = "escaped" => buf = Concat([i \in 1..Len(txt) |-> ReferenceByte(txt[i])])

\* Escape has run on a string that starts and ends with a byte it escapes,
\* with a two byte rune in between
EscapedAtBothEnds ==
    /\ pc = "escaped"
    /\ Len(txt) = MaxLen
    /\ txt[1] = SUB /\ txt[2] = 195 /\ txt[Len(txt)] = SQ

---------------------------------------------------------------------------
\* the line printResults reads next, and the number of tabs of a line
NextLine == SubSeq(rd.body, 1, IndexByte(rd.body, LF))
TabCount(ln) == Cardinality({i \in 1..Len(ln) : ln[i] = TAB})

---------------------------------------------------------------------------
(* C10: in the header phase, a line with the progress prefix whose payload *)
(* does not decode, and the end of the stream (or a read error) ahead of   *)
(* the blank line, end the scan with an error: the line is not passed      *)
(* over, and nothing of the body is read or written.  A header line        *)
(* without the prefix changes nothing.                                     *)
HeaderErrorsAbortScan ==
    /\ [](err \in {"headers", "unmarshalling"} =>
              pc = "failed" /\ stdout = <<>> /\ cur = NoRow /\ queries = <<MainQuery>>
                  /\ ctxLog = <<>>)
    /\ [][pc = "headers" =>
              IF rd.headers = <<>>
              THEN pc' = "failed" /\ err' = "headers"
              ELSE /\ (HasProgressPrefix(Head(rd.headers)) /\ ~Unmarshals(Head(rd.headers)))
                         => pc' = "failed" /\ err' = "unmarshalling"
                   /\ Head(rd.headers) = "other"
                         => UNCHANGED <<pc, err, stdout, stderr, cur>>
                   /\ rd'.body = rd.body]_vars

\* the scan has ended on a progress header that does not decode, after one
\* that did and a header of another kind
AbortedOnBadProgress ==
    /\ pc = "failed"
    /\ err = "unmarshalling"
    /\ stderr = <<"Progress">>
    /\ hdrs.lines = <<"progress", "other", "badprogress">>

---------------------------------------------------------------------------
(* C11: the process ends with status 0 when the scan returns no error or   *)
(* an error whose text holds "broken pipe", and whenever SIGPIPE has       *)
(* arrived, at whatever point of the run; it ends with status 1, the error *)
(* logged, on every other error; and the task that waits for the signal    *)
(* changes nothing of the main flow's state.                               *)
ExitStatusOfProcess ==
    /\ []((status # "running" /\ pc # "exited") => status = ExitStatus(err))
    /\ []((status # "running" /\ sigs > 0) => status = "0")
    /\ [](status = "1" =>
              stderr # <<>> /\ stderr[Len(stderr)] = "FATAL error")
    /\ [][(pc # "main" /\ (watch' # watch \/ sigs' # sigs)) =>
              UNCHANGED <<flagVars, rd, cur, stdout, stderr, err, queries, ctxLog,
                          connLog>>]_vars

---------------------------------------------------------------------------
\* the lines of a body, each with its newline
Lines(body) ==
    LET parts == Split(body, LF)
    IN  [i \in 1..(Len(parts) - 1) |-> parts[i] \o <<LF>>]

\* what a line of the main response is written as
LineText(ln) ==
    LET parts == SplitN(ln, TAB, 3)
    IN  IF Len(parts) < 3 THEN ln
        ELSE FormatRow(parts[1], Atoi(parts[2]), parts[3])

\* the entries of stdout written for the lines of the main response
MainWritten == SelectSeq(stdout, LAMBDA c : c.src = "main" /\ c.kind # "sep")

\* the place of an entry within what is written for one match: 'before'
\* window, match line, 'after' window, separator, then the lines that are
\* no rows read after it
Rank(e) ==
    CASE e.src = "before" -> 1
      [] e.src = "main" /\ e.kind = "row" -> 2
      [] e.src = "after" -> 3
      [] e.kind = "sep" -> 4
      [] OTHER -> 5

\* body is what the server sent: what is left to read ends it, and the
\* lines read so far are written, in the order they came in (the row at
\* hand is written once its 'before' scan is through)
WrittenAsDelivered(body) ==
    LET ls == Lines(body)
        consumed == Len(ls) - LineCount(rd.body)
        pending == IF pc \in {"before", "print"} THEN {1}
                   ELSE IF pc = "failed" /\ err = "context" THEN {0, 1}
                   ELSE {0}
    IN  /\ consumed >= 0
        /\ rd.body = Concat(SubSeq(ls, consumed + 1, Len(ls)))
        /\ consumed - Len(MainWritten) \in pending
        /\ \A i \in 1..Len(MainWritten) : MainWritten[i].text = LineText(ls[i])

(* C12: the lines of the main response are written in the order the server *)
(* sent them; everything written for one match is in one stretch of        *)
(* standard output, its 'before' window directly before the match line and *)
(* its 'after' window directly after it, never mixed with what is written  *)
(* for another match; it is written while that match is the row at hand,   *)
(* before the next line of the main response is read; and the 'before'     *)
(* scan of a match comes before its 'after' scan.                          *)
RowsInOrderContextAdjacent ==
    /\ [](/\ queries # <<>> =>
                \E body \in MainBodies(MainQuery, table, fault) : WrittenAsDelivered(body)
          /\ \A i, j \in DOMAIN stdout :
                i < j => /\ stdout[i].n <= stdout[j].n
                         /\ stdout[i].n = stdout[j].n => Rank(stdout[i]) <= Rank(stdout[j])
          /\ \A k, l \in DOMAIN ctxLog :
                k < l => /\ ctxLog[k].n <= ctxLog[l].n
                         /\ ctxLog[k].n = ctxLog[l].n
                               => ctxLog[k].isBefore /\ ~ctxLog[l].isBefore)
    /\ [][/\ Len(stdout') >= Len(stdout)
          /\ SubSeq(stdout', 1, Len(stdout)) = stdout
          /\ Len(stdout') > Len(stdout) =>
                /\ cur' = cur
                /\ \A i \in (Len(stdout) + 1)..Len(stdout') : stdout'[i].n = cur.n]_vars

\* a forward scan with context has written two matches: the first with a
\* row in both of its windows, the second with a row in its 'before' window
TwoMatchesWithContext ==
    /\ pc = "done"
    /\ ~reverse
    /\ fault = NoFault
    /\ \A src \in {"before", "main", "after"} :
          \E i \in DOMAIN stdout :
              stdout[i].n = 1 /\ stdout[i].src = src /\ stdout[i].kind = "row"
    /\ \A src \in {"before", "main"} :
          \E i \in DOMAIN stdout :
              stdout[i].n = 2 /\ stdout[i].src = src /\ stdout[i].kind = "row"

---------------------------------------------------------------------------
\* runMain has returned
Returned == pc \in {"done", "failed"}
\* the connections of a kind that are open
OpenOfKind(kind) ==
    {c \in StillOpen(connLog) :
        \E i \in DOMAIN connLog : connLog[i].id = c /\ connLog[i].kind = kind}
\* entry i of connLog puts a request on a connection, entry j takes it off
TakesUp(i) == connLog[i].op \in {"open", "reuse"}
GivesUp(j) == connLog[j].op \in {"idle", "close"}

---------------------------------------------------------------------------
\* the fields of the line the server sent: what stands before the first
\* tab, between the first two tabs, and after the second (less the newline)
SentLine == fault.lines[1]
FirstTab == IndexByte(SentLine, TAB)
SecondTab == FirstTab + IndexByte(SubSeq(SentLine, FirstTab + 1, Len(SentLine)), TAB)
SentTime == SubSeq(SentLine, 1, FirstTab - 1)
SentMillis == SubSeq(SentLine, FirstTab + 1, SecondTab - 1)
SentRest == SubSeq(SentLine, SecondTab + 1, Len(SentLine) - 1)

\* a string without the whitespace at its end, at its start
RECURSIVE TrimRight(_)
TrimRight(s) ==
    IF s # <<>> /\ s[Len(s)] \in {SP, TAB, LF, CR} THEN TrimRight(SubSeq(s, 1, Len(s) - 1))
    ELSE s
RECURSIVE TrimLeft(_)
TrimLeft(s) == IF s # <<>> /\ s[1] \in {SP, TAB, LF, CR} THEN TrimLeft(Tail(s)) ELSE s

\* every tab of a string made a space
Untabbed(s) == [i \in 1..Len(s) |-> IF s[i] = TAB THEN SP ELSE s[i]]

\* the digits of n >= 0 with zeros in front up to w digits
RECURSIVE Digits(_, _)
Digits(n, w) ==
    IF n < 10 /\ w <= 1 THEN <<Digit0 + n>>
    ELSE Digits(n \div 10, w - 1) \o <<Digit0 + (n % 10)>>

\* the one row has been written
RowWritten == Len(stdout) = 1 /\ stdout[1].kind = "row"

---------------------------------------------------------------------------
\* the bytes written by a run
Bytes(out) == Concat([i \in 1..Len(out) |-> out[i].text])

(* C15: a command run again with the same flags on the same table writes   *)
(* the same bytes to standard output as the run before it, whatever the    *)
(* table holds (rows with the same (time, millis) key included) and        *)
(* whichever of the answers its ORDER BY clauses allow the server gives.   *)
RerunWritesSameOutput ==
    (prev # <<>> /\ pc = "done") => Bytes(stdout) = Bytes(prev[Len(prev)].stdout)

---------------------------------------------------------------------------
(* C16: in tail mode the cursor, the lower time bound of the next cycle,   *)
(* never moves back; at the end of a cycle it stays as it is when the      *)
(* cycle wrote no row, and becomes the time of the last row the cycle      *)
(* wrote when it wrote one; it changes at the end of a cycle (and on       *)
(* entry, when no bound was given), never while a scan runs; and every     *)
(* cycle scans in forward order.                                           *)
CursorOnlyMovesForward ==
    /\ [][~StrLess(after', after)]_vars
    /\ [][pc = "done" /\ pc' = "runMain" =>
              LET rows == SelectSeq(stdout, LAMBDA c : c.kind = "row")
              IN  after' = IF rows = <<>> THEN after ELSE rows[Len(rows)].date]_vars
    /\ [][after' # after => pc \in {"tailf", "done"}]_vars
    /\ [](pc # "tailf" =>
              /\ ~reverse
              /\ \A k \in DOMAIN queries : queries[k].kind = "main" => queries[k].desc = "")

\* the cursor has moved forward at the end of one cycle and stayed at the
\* end of the next, which wrote nothing
CursorMovedThenStayed ==
    /\ Len(prev) = 2
    /\ StrLess(prev[1].cursor, prev[2].cursor)
    /\ prev[2].stdout = <<>>
    /\ after = prev[2].cursor
    /\ contextLines = 1

---------------------------------------------------------------------------
\* a context query goes out in this step, and the query it is
ContextQuerySent == pc \in {"before", "after"} /\ Len(queries') = Len(queries) + 1
SentQuery == queries'[Len(queries')]
\* the query compares with < and sorts descending; with > and ascending
BelowDescending(q) == q.comparison = "<" /\ q.desc = " DESC"
AboveAscending(q) == q.comparison = ">" /\ q.desc = ""

(* C17 (as the spec states it): for a matched row with key (T, M) the      *)
(* 'before' query compares with < and sorts descending when the order is   *)
(* reverse, compares with > and sorts ascending when it is forward; the    *)
(* 'after' query does the opposite; both are about (T, M), with one        *)
(* comparison in (time = T AND millis cmp M) OR (time cmp T).              *)
BeforeQueryBelowWhenReverse ==
    [][ContextQuerySent =>
          /\ SentQuery.kind = "context"
          /\ SentQuery.date = cur.date /\ SentQuery.millis = cur.millis
          /\ IF (pc = "before") = reverse
             THEN BelowDescending(SentQuery)
             ELSE AboveAscending(SentQuery)]_vars

(* C17 (amended): for a matched row with key (T, M) the 'before' query     *)
(* compares with > and sorts ascending when the order is reverse, compares *)
(* with < and sorts descending when it is forward; the 'after' query does  *)
(* the opposite; both are about (T, M), with one comparison in             *)
(* (time = T AND millis cmp M) OR (time cmp T), and ask for as many rows   *)
(* as the flag of their side says.                                         *)
BeforeQueryAboveWhenReverse ==
    [][ContextQuerySent =>
          /\ SentQuery.kind = "context"
          /\ SentQuery.date = cur.date /\ SentQuery.millis = cur.millis
          /\ SentQuery.limit = IF pc = "before" THEN beforeLines ELSE afterLines
          /\ IF (pc = "before") = reverse
             THEN AboveAscending(SentQuery)
             ELSE BelowDescending(SentQuery)]_vars

\* in reverse order the 'before' query of a match has gone out, comparing
\* with >, and nothing else since
BeforeQuerySentInReverse ==
    /\ reverse
    /\ pc = "print"
    /\ queries # <<>>
    /\ queries[Len(queries)].kind = "context"
    /\ queries[Len(queries)].comparison = ">"
    /\ queries[Len(queries)].millis = cur.millis

---------------------------------------------------------------------------
\* the key of main row n: that of the row at hand, or of its match line
MatchKey(n) ==
    IF n = cur.n THEN [time |-> cur.date, millis |-> cur.millis]
    ELSE LET i == CHOOSE j \in MatchLines(n) : TRUE
         IN  [time |-> stdout[i].date, millis |-> stdout[i].millis]

\* the rows written in a window of main row n
WindowEntries(n, isBefore) ==
    {i \in DOMAIN stdout :
        /\ stdout[i].n = n /\ stdout[i].kind = "row"
        /\ stdout[i].src = IF isBefore THEN "before" ELSE "after"}

\* the rows of the table on the side of key m a window is about: the rows
\* written before a match are those below it in a forward scan, those above
\* it in a reverse scan
SideOf(m, isBefore) ==
    {r \in table : IF isBefore = reverse THEN KeyLess(m, r) ELSE KeyLess(r, m)}

\* row a is nearer to the match than row b, both on that side
Nearer(a, b, isBefore) == IF isBefore = reverse THEN KeyLess(a, b) ELSE KeyLess(b, a)

Smaller(a, b) == IF a < b THEN a ELSE b

(* C18: with K rows of context asked for on a side and n rows of the table *)
(* strictly on that side of the match's key, the window holds min(K, n)    *)
(* rows, all of them rows of that side, each written once, none of them    *)
(* farther from the match than a row of that side left out; no row with    *)
(* the key of the match is in a window, and no row is in both windows of a *)
(* match.                                                                  *)
WindowsHoldNearestRows ==
    \A k \in DOMAIN ctxLog :
        LET n == ctxLog[k].n
            isBefore == ctxLog[k].isBefore
            m == MatchKey(n)
            K == IF isBefore THEN beforeLines ELSE afterLines
            side == SideOf(m, isBefore)
            win == WindowEntries(n, isBefore)
            held == {r \in table : \E i \in win : stdout[i].text = DisplayLine(r)}
        IN  m.time \in Times =>
                /\ Cardinality(win) = Smaller(K, Cardinality(side))
                /\ Cardinality(held) = Cardinality(win)
                /\ held \subseteq side
                /\ \A w \in held, r \in side \ held : ~Nearer(r, w, isBefore)
                /\ \A i \in win :
                      ~(stdout[i].date = m.time /\ stdout[i].millis = m.millis)
                /\ \A i \in win, j \in WindowEntries(n, ~isBefore) :
                      stdout[i].text # stdout[j].text

\* one row of context was asked for on a side that holds two rows, and the
\* nearer one is written
NearestOfTwoWritten ==
    \E k \in DOMAIN ctxLog :
        /\ ctxLog[k].isBefore
        /\ beforeLines = 1
        /\ MatchKey(ctxLog[k].n).time \in Times
        /\ Cardinality(SideOf(MatchKey(ctxLog[k].n), TRUE)) = 2
        /\ Cardinality(WindowEntries(ctxLog[k].n, TRUE)) = 1
        /\ \E a, b \in SideOf(MatchKey(ctxLog[k].n), TRUE) : Nearer(a, b, TRUE)

---------------------------------------------------------------------------
\* the context queries sent so far, and those sent for one side
ContextQueries == {k \in DOMAIN queries : queries[k].kind = "context"}
ScansOf(n, isBefore) ==
    {k \in DOMAIN ctxLog : ctxLog[k].n = n /\ ctxLog[k].isBefore = isBefore}
\* the requests under way after the first i entries of connLog
UnderWay(i) ==
    {j \in 1..i :
        /\ connLog[j].op \in {"open", "reuse"}
        /\ \A l \in (j + 1)..i :
              ~(connLog[l].id = connLog[j].id /\ connLog[l].op \in {"idle", "close"})}

(* C19: a row written in a context window starts no context scan and       *)
(* brings no separator: the context scans of a run are at most one         *)
(* 'before' scan (when -B is above 0) and one 'after' scan (when -A is     *)
(* above 0) for each well formed row of the main response, at most 2 times *)
(* the number of those rows in all; a match has at most one separator,     *)
(* whatever its windows hold; and at no moment is more than one context    *)
(* request under way beside the main one.                                  *)
ContextNeverNested ==
    /\ Cardinality(ContextQueries) <= 2 * cur.n
    /\ Cardinality(ContextQueries) <=
           ((IF beforeLines > 0 THEN 1 ELSE 0) + (IF afterLines > 0 THEN 1 ELSE 0)) * cur.n
    /\ \A n \in 1..cur.n :
          /\ Cardinality(ScansOf(n, TRUE)) <= 1
          /\ Cardinality(ScansOf(n, FALSE)) <= 1
          /\ Cardinality(Separators(n)) <= 1
    /\ \A k \in DOMAIN ctxLog : ctxLog[k].n \in 1..cur.n
    /\ \A i \in DOMAIN stdout :
          stdout[i].kind = "sep" =>
              \A j \in DOMAIN stdout :
                  (j > i /\ stdout[j].n = stdout[i].n) => stdout[j].src = "main"
    /\ \A i \in DOMAIN connLog :
          /\ Cardinality(UnderWay(i)) <= 2
          /\ Cardinality({j \in UnderWay(i) : connLog[j].kind = "context"}) <= 1

\* a run has ended in which the one row of the main response has a window
\* of two rows: two context scans, one separator
WindowOfTwoWithOneSeparator ==
    /\ pc = "done"
    /\ cur.n = 1
    /\ Cardinality(ContextQueries) = 2
    /\ Cardinality(Separators(1)) = 1
    /\ \E k \in DOMAIN ctxLog : ctxLog[k].rows = 2

---------------------------------------------------------------------------
\* the lines of a body, the last one counted whether or not a newline ends it
ReceivedLines(body) ==
    LineCount(body) + (IF body # <<>> /\ body[Len(body)] # LF THEN 1 ELSE 0)

(* C20: when the scan has come to the end of the stream nothing of the     *)
(* body is left unwritten: standard output has one entry for each line of  *)
(* the main response, a last line that the end of the stream ends, instead *)
(* of a newline, included.                                                 *)
EveryLineOfBodyWritten ==
    pc = "done" =>
        /\ rd.body = <<>>
        /\ \A body \in MainBodies(MainQuery, table, fault) :
              Len(MainWritten) = ReceivedLines(body)

=============================================================================
